---------------------------- MODULE Spec2Model ----------------------------
(***************************************************************************)
(* Model of src/api_client.py: the date window calculator, the customer id *)
(* registry and the five report fetchers of the WISE API client.           *)
(*                                                                         *)
(* Text is a sequence of chunks.  A chunk is one character where the code  *)
(* looks inside the text (whitespace, digits, letters of sheet names and   *)
(* of quantities) and a whole word where the code only compares or copies  *)
(* it (customer ids, order numbers).                                       *)
(***************************************************************************)
EXTENDS Integers, Sequences, FiniteSets, TLC

VARIABLES
    config,     \* DEFAULT_CUSTOMER_ID, the configuration text (config.py:30)
    clock,      \* datetime.now() of the host
    api,        \* the remote system of this run: "few" answers or "any"
    pc,         \* "idle", "loop", "returned" or "raised"
    fetcher,    \* the function that was called
    window,     \* (tomorrow_start, tomorrow_end, target_date) of the call
    i,          \* number of customers the for loop has finished with
    results,    \* the all_* accumulator list of the call
    sent,       \* the payloads posted so far, in order
    log,        \* per finished request: the reply and what the handler did
    arg,        \* the argument of the call (days_ahead, sheet_name)
    ret         \* the value returned to the caller

vars == <<config, clock, api, pc, fetcher, window, i, results, sent, log, arg, ret>>

\* ------------------------------------------------------------------ bounds

\* Most customer ids a configuration text holds.
MaxCustomers == 3
\* Most items (orders, equipment entries, receipts) in one reply body.
MaxOrders == 3
\* Most sheets in the priority report workbook.
MaxSheets == 3
\* Largest day offset |days_ahead| given to get_tomorrow_date_range.
MaxDaysAhead == 2

\* ------------------------------------------------------------------- text

RECURSIVE SeqsUpTo(_, _)
\* All sequences over S of length 0..n.
SeqsUpTo(S, n) ==
    IF n = 0 THEN {<<>>}
    ELSE LET shorter == SeqsUpTo(S, n - 1)
         IN  shorter \cup {Append(s, x) : s \in {t \in shorter : Len(t) = n - 1}, x \in S}

Range(s) == {s[k] : k \in 1..Len(s)}

\* str.isspace for one chunk.
IsSpace(c) == c \in {" ", "\t"}

RECURSIVE LStrip(_)
LStrip(s) == IF s # <<>> /\ IsSpace(Head(s)) THEN LStrip(Tail(s)) ELSE s

RECURSIVE RStrip(_)
RStrip(s) ==
    IF s # <<>> /\ IsSpace(s[Len(s)]) THEN RStrip(SubSeq(s, 1, Len(s) - 1)) ELSE s

\* str.strip(): leading and trailing whitespace removed.
Strip(s) == RStrip(LStrip(s))

\* str.lower() of one chunk, for the letters the model's texts use.
LowerChar(c) ==
    CASE c = "R" -> "r" [] c = "G" -> "g" [] c = "O" -> "o" [] c = "I" -> "i"
      [] c = "D" -> "d" [] c = "S" -> "s" [] c = "U" -> "u" [] c = "T" -> "t"
      [] c = "B" -> "b" [] c = "N" -> "n" [] c = "A" -> "a"
      [] OTHER -> c

\* str.lower().
Lower(s) == [k \in 1..Len(s) |-> LowerChar(s[k])]

\* `word in s` of Python: word is a contiguous part of s.
Contains(s, word) ==
    \E k \in 0..(Len(s) - Len(word)) : SubSeq(s, k + 1, k + Len(word)) = word

RECURSIVE Split(_, _)
\* str.split(sep) for a one-chunk separator: the parts between separators;
\* the empty text gives one empty part.
Split(s, sep) ==
    IF \A k \in 1..Len(s) : s[k] # sep THEN <<s>>
    ELSE LET k == CHOOSE j \in 1..Len(s) : s[j] = sep /\ \A h \in 1..(j - 1) : s[h] # sep
         IN  <<SubSeq(s, 1, k - 1)>> \o Split(SubSeq(s, k + 1, Len(s)), sep)

\* ----------------------------------------------------- customer id registry

\* The customer whose requests carry an appointment-time window.
MammaChia == <<"ORG-685351">>

StripAll(parts) == [k \in 1..Len(parts) |-> Strip(parts[k])]

\* CUSTOMER_IDS = [cid.strip() for cid in DEFAULT_CUSTOMER_ID.split(',')]
CUSTOMER_IDS == StripAll(Split(config, ","))

\* ------------------------------------------------------ date window

\* A datetime: the proleptic day number of its date and its time of day.
DateTime(d, h, m, s, us) == [day |-> d, hour |-> h, minute |-> m, second |-> s, microsecond |-> us]

\* datetime + timedelta(days=n): the date moves, the time of day stays.
AddDays(dt, n) == [dt EXCEPT !.day = dt.day + n]

\* datetime.replace(hour=h, minute=m, second=s): the named fields only.
ReplaceHMS(dt, h, m, s) == [dt EXCEPT !.hour = h, !.minute = m, !.second = s]

\* get_tomorrow_date_range(days_ahead) at the instant now.
DateRange(now, days_ahead) ==
    LET target_date == AddDays(now, days_ahead)
    IN  [start  |-> ReplaceHMS(target_date, 0, 0, 0),
         end    |-> ReplaceHMS(target_date, 23, 59, 59),
         target |-> target_date]

\* strftime('%Y-%m-%dT%H:%M:%S'): date and whole seconds, no sub-second part.
Strftime(dt) == <<dt.day, dt.hour, dt.minute, dt.second>>


\* ------------------------------------------------------------ JSON values

\* A decoded JSON value as the code sees it: a number, a text, None, a
\* container (list or dict), or the absence of the key.
Num(n) == [t |-> "num", n |-> n, s |-> <<>>]
Str(s) == [t |-> "str", n |-> 0, s |-> s]
Null == [t |-> "null", n |-> 0, s |-> <<>>]
Container == [t |-> "container", n |-> 0, s |-> <<>>]
Absent == [t |-> "absent", n |-> 0, s |-> <<>>]

\* A Python float: finite (special = "") or nan / inf.
Qty(n) == [special |-> "", n |-> n]
NaN == [special |-> "nan", n |-> 0]
Inf == [special |-> "inf", n |-> 0]
NegInf == [special |-> "-inf", n |-> 0]

Digits == {"0", "1", "2", "3", "4", "5", "6", "7", "8", "9"}

DigitVal(c) ==
    CASE c = "0" -> 0 [] c = "1" -> 1 [] c = "2" -> 2 [] c = "3" -> 3 [] c = "4" -> 4
      [] c = "5" -> 5 [] c = "6" -> 6 [] c = "7" -> 7 [] c = "8" -> 8 [] c = "9" -> 9

RECURSIVE DigitsVal(_)
DigitsVal(s) ==
    IF s = <<>> THEN 0 ELSE 10 * DigitsVal(SubSeq(s, 1, Len(s) - 1)) + DigitVal(s[Len(s)])

\* float(text): whitespace is stripped, a sign is allowed, then either
\* decimal digits or one of the words nan, inf, infinity in any case.
\* (Fractions and exponents are outside the texts the model draws.)
FloatOfText(s) ==
    LET body == Strip(s)
        signed == body # <<>> /\ Head(body) \in {"+", "-"}
        mag == IF signed THEN Tail(body) ELSE body
        neg == signed /\ Head(body) = "-"
    IN  IF mag # <<>> /\ Range(mag) \subseteq Digits
          THEN [exc |-> "", val |-> Qty(IF neg THEN 0 - DigitsVal(mag) ELSE DigitsVal(mag))]
        ELSE IF Lower(mag) = <<"n", "a", "n">>
          THEN [exc |-> "", val |-> NaN]
        ELSE IF Lower(mag) \in {<<"i", "n", "f">>, <<"i", "n", "f", "i", "n", "i", "t", "y">>}
          THEN [exc |-> "", val |-> IF neg THEN NegInf ELSE Inf]
        ELSE [exc |-> "ValueError", val |-> Qty(0)]

\* float(v) of Python for a decoded JSON value.
PyFloat(v) ==
    CASE v.t = "num" -> [exc |-> "", val |-> Qty(v.n)]
      [] v.t = "str" -> FloatOfText(v.s)
      [] OTHER -> [exc |-> "TypeError", val |-> Qty(0)]

\* `x or 0`: a falsy float (zero) becomes 0, anything else stays.
OrZero(x) == IF x.special = "" /\ x.n = 0 THEN Qty(0) ELSE x

\* --------------------------------------------------------- raw orders

\* An element of the reply's order list: a mapping from the keys it has to
\* their values (a function whose domain is the keys present), or something
\* that is no mapping at all.
RawOrder(fields) == [mapping |-> TRUE, f |-> fields]
NotAMapping == [mapping |-> FALSE, f |-> <<>>]

\* dict.get(key, default)
Get(d, key, default) == IF key \in DOMAIN d.f THEN d.f[key] ELSE default

\* Variant: `except ValueError` alone around the quantity parsing.
InnerCaught_ValueErrorOnly(exc) == exc = "ValueError"

\* `except (ValueError, TypeError)` around the quantity parsing.
InnerCaught(exc) == exc \in {"ValueError", "TypeError"}

\* The statements of the inner try block, in order; the first exception
\* ends the block.
TryQuantities(order) ==
    IF ~order.mapping
      THEN [exc |-> "AttributeError", pallet_qty |-> Qty(0), order_qty |-> Qty(0),
            picking_type |-> Str(<<>>)]
    ELSE
      LET p == PyFloat(Get(order, "Pallet QTY", Num(0)))
          o == PyFloat(Get(order, "Order QTY", Num(0)))
      IN  IF p.exc # ""
            THEN [exc |-> p.exc, pallet_qty |-> Qty(0), order_qty |-> Qty(0),
                  picking_type |-> Str(<<>>)]
          ELSE IF o.exc # ""
            THEN [exc |-> o.exc, pallet_qty |-> OrZero(p.val), order_qty |-> Qty(0),
                  picking_type |-> Str(<<>>)]
          ELSE [exc |-> "", pallet_qty |-> OrZero(p.val), order_qty |-> OrZero(o.val),
                picking_type |-> Get(order, "Picking Type", Str(<<>>))]

\* The inner try/except: a caught exception resets both quantities (and the
\* picking type) to their defaults, any other exception goes on.
Quantities(order) ==
    LET t == TryQuantities(order)
    IN  IF t.exc # "" /\ InnerCaught(t.exc)
          THEN [exc |-> "", pallet_qty |-> Qty(0), order_qty |-> Qty(0),
                picking_type |-> Str(<<>>)]
        ELSE t

\* The record appended for one raw order.
NormalizeOrder(order, customer_id, q, f) ==
    IF f = "outbound"
      THEN [order_no |-> Get(order, "Order No.", Null),
            status |-> Get(order, "Order Status", Str(<<"Unknown">>)),
            customer |-> customer_id,
            ship_to |-> Get(order, "Ship to", Str(<<"Unknown">>)),
            state |-> Get(order, "State", Str(<<"Unknown">>)),
            reference_no |-> Get(order, "Reference Number", Str(<<>>)),
            target_completion_date |-> Get(order, "Target Completion Date", Str(<<>>)),
            pallet_qty |-> q.pallet_qty,
            order_qty |-> q.order_qty,
            PickingType |-> q.picking_type]
    ELSE [order_no |-> Get(order, "Order No.", Null),
          status |-> Get(order, "Order Status", Str(<<"Unknown">>)),
          customer |-> customer_id,
          ship_to |-> Get(order, "Ship to", Str(<<"Unknown">>)),
          state |-> Get(order, "State", Str(<<"Unknown">>)),
          reference_no |-> Get(order, "Reference Number", Str(<<>>)),
          target_completion_date |-> Get(order, "Target Completion Date", Str(<<>>)),
          pallet_qty |-> q.pallet_qty,
          order_qty |-> q.order_qty]

RECURSIVE ProcessOrders(_, _, _, _)
\* `for order in orders:` appending to acc; an exception that leaves the
\* inner try ends the loop with what was appended so far.
ProcessOrders(orders, customer_id, f, acc) ==
    IF orders = <<>> THEN [exc |-> "", out |-> acc]
    ELSE LET q == Quantities(Head(orders))
         IN  IF q.exc # "" THEN [exc |-> q.exc, out |-> acc]
             ELSE ProcessOrders(Tail(orders), customer_id, f,
                                Append(acc, NormalizeOrder(Head(orders), customer_id, q, f)))

\* --------------------------------------------------------------- replies

\* What requests.post gives: a transport failure, or a response with a
\* status code whose content either decodes as JSON (body) or does not.
\* A body: its top-level type, the 'results' key and the 'data' key under it
\* (order status report), the 'receipts' key (receipt search), each "absent",
\* "null", "dict" or "list", and the items of the list the endpoint is about.
Body(top, res, dat, rec, items) ==
    [top |-> top, results |-> res, data |-> dat, receipts |-> rec, items |-> items]
NoBody == Body("null", "absent", "absent", "absent", <<>>)
TransportError == [transport |-> TRUE, status |-> 0, json |-> FALSE, body |-> NoBody]
HttpReply(status, json, body) ==
    [transport |-> FALSE, status |-> status, json |-> json, body |-> body]

\* response.raise_for_status(): raises for 4xx and 5xx.
RaiseForStatus(status) == 400 <= status /\ status < 600

\* requests.post, raise_for_status and response.json(), in order.
Decode(reply) ==
    IF reply.transport THEN "ConnectionError"
    ELSE IF RaiseForStatus(reply.status) THEN "HTTPError"
    ELSE IF ~reply.json THEN "JSONDecodeError"
    ELSE ""

\* data.get('results', {}).get('data', []) of the order status report.
OrdersOf(body) ==
    IF body.top # "dict" THEN [exc |-> "AttributeError", orders |-> <<>>]
    ELSE IF body.results = "absent" THEN [exc |-> "", orders |-> <<>>]
    ELSE IF body.results # "dict" THEN [exc |-> "AttributeError", orders |-> <<>>]
    ELSE IF body.data = "absent" THEN [exc |-> "", orders |-> <<>>]
    ELSE IF body.data # "list" THEN [exc |-> "TypeError", orders |-> <<>>]
    ELSE [exc |-> "", orders |-> body.items]

\* The outer try block of get_outbound_orders / get_picked_outbound_orders
\* for one customer: the exception that leaves it ("" for none) and the
\* accumulator afterwards.
OrdersTry(reply, customer_id, f, acc) ==
    LET e == Decode(reply)
    IN  IF e # "" THEN [exc |-> e, out |-> acc]
        ELSE LET o == OrdersOf(reply.body)
             IN  IF o.exc # "" THEN [exc |-> o.exc, out |-> acc]
                 ELSE ProcessOrders(o.orders, customer_id, f, acc)

\* Variant: `except requests.RequestException`, which the decoding and
\* shape errors do not derive from.
Caught_RequestErrorsOnly(exc) == exc \in {"ConnectionError", "HTTPError"}

\* `except Exception` of every fetcher: all of the exceptions above derive
\* from Exception.
Caught(exc) ==
    exc \in {"ConnectionError", "HTTPError", "JSONDecodeError", "AttributeError",
             "TypeError", "ValueError"}


\* ------------------------------------------------------- equipment detail

\* An element of the equipment reply: a mapping with some of the keys, or
\* no mapping.  receiptIds is absent, None or a list of ids.
RawEquipment(no, ids, st, loc) ==
    [mapping |-> TRUE, equipmentNo |-> no, receiptIds |-> ids, status |-> st,
     currentLocation |-> loc]
IdList(ids) == [t |-> "list", ids |-> ids]
NoIds == [t |-> "absent", ids |-> <<>>]
NullIds == [t |-> "null", ids |-> <<>>]
NotEquipment == [mapping |-> FALSE, equipmentNo |-> Absent, receiptIds |-> NoIds,
                 status |-> Absent, currentLocation |-> Absent]

\* equipment.get('receiptIds', [])
ReceiptIdsOf(equipment) ==
    IF equipment.receiptIds.t = "absent" THEN IdList(<<>>) ELSE equipment.receiptIds

\* `if receipt_ids:` -- None and the empty list are falsy.
Truthy(receipt_ids) == receipt_ids.t = "list" /\ receipt_ids.ids # <<>>

OrDefault(v, default) == IF v.t = "absent" THEN default ELSE v

EquipmentRecord(equipment, customer_id) ==
    [equipmentNo |-> OrDefault(equipment.equipmentNo, Str(<<>>)),
     receiptIds |-> ReceiptIdsOf(equipment),
     status |-> OrDefault(equipment.status, Str(<<>>)),
     location |-> OrDefault(equipment.currentLocation, Str(<<>>)),
     customerId |-> customer_id]

\* Variant: the loop body without the `if receipt_ids:` test.
Emits_AnyMapping(equipment) == equipment.mapping

\* Whether the loop body appends a record for this entry.
Emits(equipment) == equipment.mapping /\ Truthy(ReceiptIdsOf(equipment))

RECURSIVE ProcessEquipment(_, _, _)
\* `for equipment in data:` appending to acc.
ProcessEquipment(data, customer_id, acc) ==
    IF data = <<>> THEN acc
    ELSE ProcessEquipment(Tail(data), customer_id,
                          IF Emits(Head(data))
                            THEN Append(acc, EquipmentRecord(Head(data), customer_id))
                          ELSE acc)

\* The try block of get_equipment_details for one customer: the exception
\* that leaves it, whether the reply was skipped as not list-shaped, and the
\* accumulator afterwards.
EquipmentTry(reply, customer_id, acc) ==
    LET e == Decode(reply)
    IN  IF e # "" THEN [exc |-> e, skipped |-> FALSE, out |-> acc]
        ELSE IF reply.body.top # "list" THEN [exc |-> "", skipped |-> TRUE, out |-> acc]
        ELSE [exc |-> "", skipped |-> FALSE,
              out |-> ProcessEquipment(reply.body.items, customer_id, acc)]

\* -------------------------------------------------------- inbound receipts

\* The try block of get_inbound_receipts: data.get('receipts', []), then
\* len(receipts) in the log line, then the return.
ReceiptsTry(reply) ==
    LET e == Decode(reply)
    IN  IF e # "" THEN [exc |-> e, out |-> <<>>]
        ELSE IF reply.body.top # "dict" THEN [exc |-> "AttributeError", out |-> <<>>]
        ELSE IF reply.body.receipts = "absent" THEN [exc |-> "", out |-> <<>>]
        ELSE IF reply.body.receipts # "list" THEN [exc |-> "TypeError", out |-> <<>>]
        ELSE [exc |-> "", out |-> reply.body.items]

\* ---------------------------------------------------------- return values

None == [kind |-> "none", items |-> <<>>]
ListOf(items) == [kind |-> "list", items |-> items]
\* The dict read_excel gives for a list of sheet names: one table per name.
SheetsOf(names) == [kind |-> "sheets", items |-> names]
\* The DataFrame read_excel gives for one sheet name.
TableOf(name) == [kind |-> "table", items |-> <<name>>]
WindowOf == [kind |-> "window", items |-> <<>>]

\* --------------------------------------------------------- priority report

RGOutbound == <<"R", "G", " ", "O", "u", "t", "b", "o", "u", "n", "d">>
Inbound == <<"I", "n", "b", "o", "u", "n", "d">>
outbound == <<"o", "u", "t", "b", "o", "u", "n", "d">>
inbound == <<"i", "n", "b", "o", "u", "n", "d">>
all == <<"a", "l", "l">>

\* The reply of the report endpoint: a transport failure, or a status and a
\* content that is a workbook with these sheet names, or no workbook.
WorkbookReply(status, excel, sheets) ==
    [transport |-> FALSE, status |-> status, excel |-> excel, sheets |-> sheets]
NoWorkbook == [transport |-> TRUE, status |-> 0, excel |-> FALSE, sheets |-> <<>>]

RECURSIVE Dedup(_)
\* dict.fromkeys(names): first occurrences, in order.
Dedup(names) ==
    IF names = <<>> THEN <<>>
    ELSE LET front == Dedup(SubSeq(names, 1, Len(names) - 1))
             last == names[Len(names)]
         IN  IF last \in Range(front) THEN front ELSE Append(front, last)

\* pd.read_excel(file, sheet_name=[...]): ValueError when a name is no sheet.
ReadExcelList(available, names) ==
    IF Range(names) \subseteq Range(available)
      THEN [exc |-> "", ret |-> SheetsOf(Dedup(names))]
    ELSE [exc |-> "ValueError", ret |-> None]

\* Variant: the match without .lower().
FirstSheet_CaseSensitive(available, word) ==
    LET hits == {k \in 1..Len(available) : Contains(available[k], word)}
    IN  IF hits = {} THEN [found |-> FALSE, name |-> <<>>]
        ELSE [found |-> TRUE, name |-> available[CHOOSE k \in hits : \A h \in hits : k <= h]]

\* next((s for s in available_sheets if word in s.lower()), None)
FirstSheet(available, word) ==
    LET hits == {k \in 1..Len(available) : Contains(Lower(available[k]), word)}
    IN  IF hits = {} THEN [found |-> FALSE, name |-> <<>>]
        ELSE [found |-> TRUE, name |-> available[CHOOSE k \in hits : \A h \in hits : k <= h]]

\* Truth value of what next(..., None) gave: None and '' are falsy.
SheetTruthy(hit) == hit.found /\ hit.name # <<>>

\* The branch for sheet_name == 'all' (lines 56-67).
AllSheets(available) ==
    LET exact == ReadExcelList(available, <<RGOutbound, Inbound>>)
    IN  IF exact.exc = "" THEN exact
        ELSE IF exact.exc # "ValueError" THEN exact
        ELSE LET outbound_sheet == FirstSheet(available, outbound)
                 inbound_sheet == FirstSheet(available, inbound)
             IN  IF SheetTruthy(outbound_sheet) /\ SheetTruthy(inbound_sheet)
                   THEN ReadExcelList(available, <<outbound_sheet.name, inbound_sheet.name>>)
                 ELSE [exc |-> "", ret |-> None]

\* The branch for one sheet (lines 69-77); sheet_name is None or a text.
OneSheet(available, sheet_name) ==
    LET wanted == IF sheet_name.t = "str" /\ sheet_name.s # <<>> THEN sheet_name.s
                  ELSE RGOutbound
        word == IF Contains(Lower(wanted), outbound) THEN outbound ELSE inbound
        target_sheet == IF wanted \in Range(available) THEN [found |-> TRUE, name |-> wanted]
                        ELSE FirstSheet(available, word)
    IN  IF SheetTruthy(target_sheet) /\ target_sheet.name \in Range(available)
          THEN [exc |-> "", ret |-> TableOf(target_sheet.name)]
        ELSE [exc |-> "", ret |-> None]

\* The try block of get_priority_report.
PriorityTry(reply, sheet_name) ==
    IF reply.transport THEN [exc |-> "ConnectionError", ret |-> None]
    ELSE IF RaiseForStatus(reply.status) THEN [exc |-> "HTTPError", ret |-> None]
    ELSE IF reply.status # 200 THEN [exc |-> "", ret |-> None]
    ELSE IF ~reply.excel THEN [exc |-> "ValueError", ret |-> None]
    ELSE IF sheet_name = Str(all) THEN AllSheets(reply.sheets)
    ELSE OneSheet(reply.sheets, sheet_name)

\* ---------------------------------------------------------------- payloads

Paging == [pageNo |-> 1, limit |-> 1000]

\* Variant: the target-completion window for every customer.
DateFields_AlwaysTarget(customer_id, w) ==
    [targetCompletionDateFrom |-> Strftime(w.start),
     targetCompletionDateTo |-> Strftime(w.end)]

\* The date-window fields of an order status request (lines 190-195).
DateFields(customer_id, w) ==
    IF Strip(customer_id) = MammaChia
      THEN [appointmentTimeFrom |-> Strftime(w.start),
            appointmentTimeTo |-> Strftime(w.end)]
    ELSE [targetCompletionDateFrom |-> Strftime(w.start),
          targetCompletionDateTo |-> Strftime(w.end)]

OrderStatuses(f) ==
    IF f = "outbound" THEN <<"Imported", "Open", "Planning", "Planned", "Committed">>
    ELSE <<"Picked", "Packed", "Staged">>

OrdersPayload(f, customer_id, w) ==
    [statuses |-> OrderStatuses(f), customerId |-> Strip(customer_id),
     orderTypes |-> <<"Regular Order">>, paging |-> Paging] @@ DateFields(customer_id, w)

EquipmentPayload(customer_id) ==
    [customerId |-> Strip(customer_id), type |-> "Container", equipmentStatus |-> "Full",
     statuses |-> <<"Loaded", "Full to Offload">>, paging |-> Paging]

ReceiptsPayload(ids, w) ==
    [appointmentTimeFrom |-> Strftime(w.start), appointmentTimeTo |-> Strftime(w.end),
     customerIds |-> ids, paging |-> Paging, statuses |-> <<"Appointment Made", "In Yard">>]

PriorityPayload == [reportService |-> "priorityReport", reportFunction |-> "buildPriorityReport"]


\* ------------------------------------------------------------- environment

\* Configuration texts: raw tokens joined by commas.
TokenMammaChia == <<" ", "ORG-685351", " ">>
TokenOther == <<"ORG-714892">>
RawTokens == {TokenMammaChia, TokenOther}

RECURSIVE Join(_)
Join(tokens) ==
    IF Len(tokens) = 0 THEN <<>>
    ELSE IF Len(tokens) = 1 THEN tokens[1]
    ELSE tokens[1] \o <<",">> \o Join(Tail(tokens))

\* Every text of up to MaxCustomers tokens, the empty text included.
Configs == {Join(t) : t \in SeqsUpTo(RawTokens, MaxCustomers)}
\* The texts that hold one customer id; the empty text holds the empty id.
SingleConfigs == {Join(t) : t \in SeqsUpTo(RawTokens, 1)}

\* Instants of the host clock.
Instants ==
    {DateTime(d, h, m, sec, us) :
        d \in {100, 101}, h \in {0, 11, 23}, m \in {0, 30, 59}, sec \in {0, 15, 59},
        us \in {0, 1, 999999}}
Noon == DateTime(100, 12, 0, 0, 0)
LastMicrosecond == DateTime(100, 23, 59, 59, 999999)

Offsets == (0 - MaxDaysAhead)..MaxDaysAhead

\* Raw orders the order status report may hold.
Key(k, v) == k :> v
GoodOrder ==
    RawOrder(Key("Order No.", Str(<<"DN-1">>)) @@ Key("Order Status", Str(<<"Open">>))
             @@ Key("Ship to", Str(<<"Store 9">>)) @@ Key("State", Str(<<"CA">>))
             @@ Key("Reference Number", Str(<<"PO-7">>))
             @@ Key("Target Completion Date", Str(<<"2025-01-02">>))
             @@ Key("Pallet QTY", Num(3)) @@ Key("Order QTY", Str(<<" ", "1", "2">>))
             @@ Key("Picking Type", Str(<<"Bendi">>)))
BadPalletOrder ==
    RawOrder(Key("Order No.", Str(<<"DN-2">>)) @@ Key("Pallet QTY", Str(<<"a", "b", "c">>))
             @@ Key("Order QTY", Num(5)) @@ Key("Picking Type", Str(<<"Floor">>)))
BadOrderQtyOrder ==
    RawOrder(Key("Order No.", Str(<<"DN-3">>)) @@ Key("Pallet QTY", Str(<<"4">>))
             @@ Key("Order QTY", Null) @@ Key("Picking Type", Str(<<"Floor">>)))
BareOrder == RawOrder(Key("Order Status", Null))
NanOrder ==
    RawOrder(Key("Order No.", Str(<<"DN-5">>)) @@ Key("Pallet QTY", Str(<<"N", "a", "N">>))
             @@ Key("Order QTY", Num(0)))
OrderCatalogue == {GoodOrder, BadPalletOrder, BadOrderQtyOrder, BareOrder, NanOrder, NotAMapping}

OrdersBody(items) == Body("dict", "dict", "list", "absent", items)
OddOrderBodies ==
    {Body("list", "absent", "absent", "absent", <<>>),
     Body("dict", "absent", "absent", "absent", <<>>),
     Body("dict", "null", "absent", "absent", <<>>),
     Body("dict", "dict", "absent", "absent", <<>>),
     Body("dict", "dict", "null", "absent", <<>>)}

\* Raw entries the equipment endpoint may hold.
EquipmentCatalogue ==
    {RawEquipment(Str(<<"EQ-1">>), IdList(<<"RN-1">>), Str(<<"Loaded">>), Str(<<"Dock 1">>)),
     RawEquipment(Str(<<"EQ-2">>), IdList(<<>>), Absent, Absent),
     RawEquipment(Str(<<"EQ-3">>), NoIds, Absent, Absent),
     RawEquipment(Str(<<"EQ-4">>), NullIds, Absent, Absent),
     RawEquipment(Absent, IdList(<<"RN-5", "RN-6">>), Null, Absent),
     NotEquipment}
EquipmentBody(items) == Body("list", "absent", "absent", "absent", items)

ReceiptsBody(items) == Body("dict", "absent", "absent", "list", items)
OddReceiptBodies ==
    {Body("list", "absent", "absent", "absent", <<>>),
     Body("dict", "absent", "absent", "absent", <<>>),
     Body("dict", "absent", "absent", "null", <<>>)}

\* Sheet names a workbook may hold.
SheetNames ==
    {RGOutbound, Inbound,
     <<"R", "G", "O", "u", "t", "b", "o", "u", "n", "d">>,
     <<"I", "n", "b", "o", "u", "n", "d", "D", "o", "c", "k">>,
     <<"O", "U", "T", "B", "O", "U", "N", "D", " ", "i", "n", "b", "o", "u", "n", "d">>,
     <<"S", "u", "m", "m", "a", "r", "y">>}
\* A workbook has at least one sheet and no name twice.
Workbooks ==
    {w \in SeqsUpTo(SheetNames, MaxSheets) : Len(w) >= 1 /\ Cardinality(Range(w)) = Len(w)}

\* What each endpoint can answer when every shape is possible.
AnyAnswers ==
    [orders |-> OddOrderBodies \cup {OrdersBody(o) : o \in SeqsUpTo(OrderCatalogue, MaxOrders)},
     equipment |-> {Body("dict", "absent", "absent", "absent", <<>>)}
                   \cup {EquipmentBody(e) : e \in SeqsUpTo(EquipmentCatalogue, MaxOrders)},
     receipts |-> OddReceiptBodies
                  \cup {ReceiptsBody(r) : r \in SeqsUpTo({<<"RN-1">>, <<"RN-2">>}, MaxOrders)},
     workbooks |-> Workbooks]

\* A remote system with few answers, for runs over long customer lists.
FewAnswers ==
    [orders |-> {Body("list", "absent", "absent", "absent", <<>>), OrdersBody(<<>>),
                 OrdersBody(<<GoodOrder>>), OrdersBody(<<GoodOrder, NotAMapping>>)},
     equipment |-> {Body("dict", "absent", "absent", "absent", <<>>),
                    EquipmentBody(<<>>),
                    EquipmentBody(<<RawEquipment(Str(<<"EQ-1">>), IdList(<<"RN-1">>),
                                                 Str(<<"Loaded">>), Str(<<"Dock 1">>))>>)},
     receipts |-> {ReceiptsBody(<<>>), ReceiptsBody(<<<<"RN-1">>>>)},
     workbooks |-> {<<RGOutbound, Inbound>>, <<Inbound>>}]

\* The replies requests.post can end with, given the bodies the endpoint has.
Replies(bodies) ==
    {TransportError, HttpReply(500, FALSE, NoBody), HttpReply(200, FALSE, NoBody)}
    \cup {HttpReply(200, TRUE, b) : b \in bodies}

WorkbookReplies(books) ==
    {NoWorkbook, WorkbookReply(500, FALSE, <<>>), WorkbookReply(204, FALSE, <<>>),
     WorkbookReply(200, FALSE, <<>>)}
    \cup {WorkbookReply(200, TRUE, w) : w \in books}

\* The replies of each endpoint, for either remote system.
AnyReplies ==
    [orders |-> Replies(AnyAnswers.orders), equipment |-> Replies(AnyAnswers.equipment),
     receipts |-> Replies(AnyAnswers.receipts),
     workbooks |-> WorkbookReplies(AnyAnswers.workbooks)]
FewReplies ==
    [orders |-> Replies(FewAnswers.orders), equipment |-> Replies(FewAnswers.equipment),
     receipts |-> Replies(FewAnswers.receipts),
     workbooks |-> WorkbookReplies(FewAnswers.workbooks)]
Answers == IF api = "any" THEN AnyReplies ELSE FewReplies

\* The sheet_name arguments: None, 'all', '' and some names.
Selectors ==
    {Null, Str(all), Str(<<>>), Str(Inbound), Str(<<"R", "G", "O", "u", "t", "b", "o", "u", "n", "d">>),
     Str(<<"S", "u", "m", "m", "a", "r", "y">>)}

\* --------------------------------------------------------------- the state

NoWindow == DateRange(DateTime(0, 0, 0, 0, 0), 0)
NoArg == [days_ahead |-> 1, sheet_name |-> Null]

InitCall ==
    /\ pc = "idle"
    /\ fetcher = ""
    /\ window = NoWindow
    /\ i = 0
    /\ results = <<>>
    /\ sent = <<>>
    /\ log = <<>>
    /\ arg = NoArg
    /\ ret = None

Init ==
    /\ config \in Configs
    /\ clock = LastMicrosecond
    /\ api = "few"
    /\ InitCall

InitBodies ==
    /\ config \in SingleConfigs
    /\ clock = Noon
    /\ api = "any"
    /\ InitCall

InitDate ==
    /\ config = TokenOther
    /\ clock \in Instants
    /\ api = "few"
    /\ InitCall

\* ------------------------------------------------------------- the actions

\* Variant: the try around the whole loop, so that a failure ends it.
NextIndex_StopOnFailure(idx, failed, n) == IF failed THEN n ELSE idx + 1

\* Variant: a failed request is posted again.
NextIndex_Retry(idx, failed, n) == IF failed THEN idx ELSE idx + 1

\* The for loop over CUSTOMER_IDS: the index after an iteration, whether it
\* ended in the except handler (or `continue`) or not.
NextIndex(idx, failed, n) == idx + 1

\* get_tomorrow_date_range(days_ahead), called directly.
GetTomorrowDateRange(days_ahead) ==
    /\ pc = "idle"
    /\ pc' = "returned"
    /\ fetcher' = "date_range"
    /\ window' = DateRange(clock, days_ahead)
    /\ arg' = [NoArg EXCEPT !.days_ahead = days_ahead]
    /\ ret' = WindowOf
    /\ UNCHANGED <<config, clock, api, i, results, sent, log>>

\* Entry of a per-customer fetcher up to its for loop.
Call(f) ==
    /\ pc = "idle"
    /\ pc' = "loop"
    /\ fetcher' = f
    /\ window' = IF f = "equipment" THEN window ELSE DateRange(clock, 1)
    /\ i' = 0
    /\ results' = <<>>
    /\ sent' = <<>>
    /\ log' = <<>>
    /\ UNCHANGED <<config, clock, api, arg, ret>>

\* What one iteration leaves behind: r is the outcome of the try block.
Iteration(customer_id, payload, reply, r, skipped) ==
    /\ sent' = Append(sent, payload)
    /\ results' = r.out
    /\ log' = Append(log, [customer |-> customer_id, reply |-> reply, exc |-> r.exc,
                           failed |-> (r.exc # "" \/ skipped),
                           from |-> Len(results), to |-> Len(r.out)])
    /\ IF r.exc = "" \/ Caught(r.exc)
         THEN /\ i' = NextIndex(i, r.exc # "" \/ skipped, Len(CUSTOMER_IDS))
              /\ pc' = pc
       ELSE /\ i' = i
            /\ pc' = "raised"
    /\ UNCHANGED <<config, clock, api, fetcher, window, arg, ret>>

\* One iteration of the loop of get_outbound_orders / get_picked_outbound_orders.
OrdersIteration ==
    /\ pc = "loop"
    /\ fetcher \in {"outbound", "picked"}
    /\ i < Len(CUSTOMER_IDS)
    /\ \E reply \in Answers.orders :
         LET customer_id == CUSTOMER_IDS[i + 1]
         IN  Iteration(customer_id, OrdersPayload(fetcher, customer_id, window), reply,
                       OrdersTry(reply, customer_id, fetcher, results), FALSE)

\* One iteration of the loop of get_equipment_details.
EquipmentIteration ==
    /\ pc = "loop"
    /\ fetcher = "equipment"
    /\ i < Len(CUSTOMER_IDS)
    /\ \E reply \in Answers.equipment :
         LET customer_id == CUSTOMER_IDS[i + 1]
             r == EquipmentTry(reply, customer_id, results)
         IN  Iteration(customer_id, EquipmentPayload(customer_id), reply, r, r.skipped)

\* The print loop at the end of get_picked_outbound_orders reads these keys
\* of every record; a missing key raises KeyError outside any try.
PrintLoop(f, records) ==
    IF f = "picked" /\ \E k \in 1..Len(records) :
                          ~({"order_no", "customer", "reference_no"} \subseteq DOMAIN records[k])
      THEN "KeyError"
    ELSE ""

\* The end of the loop: the summary line and the return.
Return ==
    /\ pc = "loop"
    /\ i >= Len(CUSTOMER_IDS)
    /\ IF PrintLoop(fetcher, results) = ""
         THEN pc' = "returned" /\ ret' = ListOf(results)
       ELSE pc' = "raised" /\ ret' = ret
    /\ UNCHANGED <<config, clock, api, fetcher, window, i, results, sent, log, arg>>

\* What a single-request fetcher leaves behind.
SingleCall(f, payload, reply, r, onError) ==
    /\ pc = "idle"
    /\ fetcher' = f
    /\ sent' = <<payload>>
    /\ log' = <<[reply |-> reply, exc |-> r.exc, failed |-> (r.exc # "")]>>
    /\ IF r.exc = ""
         THEN pc' = "returned" /\ ret' = r.ret
       ELSE IF Caught(r.exc)
         THEN pc' = "returned" /\ ret' = onError
       ELSE pc' = "raised" /\ ret' = ret
    /\ UNCHANGED <<config, clock, api, i, results>>

\* get_priority_report(sheet_name)
GetPriorityReport ==
    \E sheet_name \in Selectors, reply \in Answers.workbooks :
        /\ SingleCall("priority", PriorityPayload, reply, PriorityTry(reply, sheet_name), None)
        /\ arg' = [NoArg EXCEPT !.sheet_name = sheet_name]
        /\ window' = window

\* get_inbound_receipts()
GetInboundReceipts ==
    \E reply \in Answers.receipts :
        LET w == DateRange(clock, 1)
            r == ReceiptsTry(reply)
        IN  /\ SingleCall("receipts", ReceiptsPayload(CUSTOMER_IDS, w), reply,
                          [exc |-> r.exc, ret |-> ListOf(r.out)], ListOf(<<>>))
            /\ window' = w
            /\ arg' = arg

Next ==
    \/ \E f \in {"equipment", "outbound", "picked"} : Call(f)
    \/ OrdersIteration
    \/ EquipmentIteration
    \/ Return
    \/ GetPriorityReport
    \/ GetInboundReceipts
    \/ \E n \in {1} : GetTomorrowDateRange(n)

NextDate == \E n \in Offsets : GetTomorrowDateRange(n)

\* The per-customer fetchers against a remote system with few answers.
Spec == Init /\ [][Next]_vars
\* All fetchers against every shape of answer, for one customer.
SpecBodies == InitBodies /\ [][Next]_vars
\* The date window calculator over many instants and offsets.
SpecDate == InitDate /\ [][NextDate]_vars


\* -------------------------------------------------------------- properties

PerCustomer == {"equipment", "outbound", "picked"}
OrderFetchers == {"outbound", "picked"}

\* A reply that is a success for its endpoint, stated on the reply alone.
GoodStatus(reply) == ~reply.transport /\ reply.status \in 200..299
OrdersSuccess(reply) ==
    /\ GoodStatus(reply) /\ reply.json
    /\ reply.body.top = "dict" /\ reply.body.results = "dict" /\ reply.body.data = "list"
    /\ \A k \in 1..Len(reply.body.items) : reply.body.items[k].mapping
EquipmentSuccess(reply) == GoodStatus(reply) /\ reply.json /\ reply.body.top = "list"

\* An equipment entry with at least one receipt id.
HasReceiptId(e) == e.mapping /\ e.receiptIds.t = "list" /\ Len(e.receiptIds.ids) >= 1

\* The records request j left in the returned list.
Segment(j) == SubSeq(ret.items, log[j].from + 1, log[j].to)

\* Request j's successful reply and the returned list agree record by record.
YieldsAll(j) ==
    LET items == log[j].reply.body.items
    IN  IF fetcher = "equipment"
          THEN LET want == SelectSeq(items, HasReceiptId)
               IN  /\ Len(Segment(j)) = Len(want)
                   /\ \A k \in 1..Len(want) :
                        /\ Segment(j)[k].receiptIds.ids = want[k].receiptIds.ids
                        /\ Segment(j)[k].customerId = CUSTOMER_IDS[j]
        ELSE /\ Len(Segment(j)) = Len(items)
             /\ \A k \in 1..Len(items) :
                  /\ Segment(j)[k].order_no = Get(items[k], "Order No.", Null)
                  /\ Segment(j)[k].customer = CUSTOMER_IDS[j]

ReplyFailed(j) ==
    IF fetcher = "equipment" THEN ~EquipmentSuccess(log[j].reply)
    ELSE ~OrdersSuccess(log[j].reply)

\* C1: when a per-customer fetcher returns, every customer of the list was
\* queried, whichever requests failed, and every record that a successful
\* reply yields is in the returned list, tagged with its customer.
C1_FailureIsolated ==
    (pc = "returned" /\ fetcher \in PerCustomer) =>
        /\ Len(log) = Len(CUSTOMER_IDS)
        /\ \A j \in 1..Len(log) :
             /\ sent[j].customerId = CUSTOMER_IDS[j]
             /\ ~ReplyFailed(j) => YieldsAll(j)

\* A three-customer call whose middle request failed and whose first and
\* last replies each gave a record.
C1_Witness ==
    /\ pc = "returned" /\ fetcher = "outbound" /\ Len(log) = 3
    /\ ~ReplyFailed(1) /\ ReplyFailed(2) /\ ~ReplyFailed(3)
    /\ log[2].exc = "HTTPError"
    /\ Len(Segment(1)) = 1 /\ Len(Segment(3)) = 1
    /\ Len(ret.items) = 2

\* A reply the claim calls failed: transport failure, non-success status or
\* content that cannot be parsed.
Unparsed(reply) == IF fetcher = "priority" THEN ~reply.excel ELSE ~reply.json
CallFailed(reply) == reply.transport \/ reply.status \notin 200..299 \/ Unparsed(reply)

\* C2: no fetcher lets an exception reach its caller; get_priority_report
\* returns None and get_inbound_receipts returns the empty list when the
\* transport fails, the status is no success or the content does not parse;
\* a per-customer fetcher returns a list.
C2_NoFaultPropagates ==
    /\ pc # "raised"
    /\ (pc = "returned" /\ fetcher = "priority" /\ CallFailed(log[1].reply)) => ret = None
    /\ (pc = "returned" /\ fetcher = "receipts" /\ CallFailed(log[1].reply)) => ret = ListOf(<<>>)
    /\ (pc = "returned" /\ fetcher \in PerCustomer) => ret.kind = "list"

\* get_inbound_receipts returned after a reply that is a JSON list, which
\* has no 'receipts' to get.
C2_Witness ==
    /\ pc = "returned" /\ fetcher = "receipts"
    /\ ~CallFailed(log[1].reply) /\ log[1].reply.body.top = "list"
    /\ log[1].exc = "AttributeError"
    /\ ret = ListOf(<<>>)

\* C3: get_equipment_details returns, for every list-shaped reply, exactly
\* one record per entry that has at least one receipt id, in order, with
\* the customer id of the query, and none for any other entry.
C3_RecordIffReceiptId ==
    (pc = "returned" /\ fetcher = "equipment") =>
        /\ \A j \in 1..Len(log) : EquipmentSuccess(log[j].reply) => YieldsAll(j)
        /\ \A k \in 1..Len(ret.items) : Len(ret.items[k].receiptIds.ids) >= 1
        /\ \A j \in 1..Len(log) : ~EquipmentSuccess(log[j].reply) => Segment(j) = <<>>

\* A reply with an entry without receipt ids, one with None, one with an
\* empty list and one with an id: only the last is returned.
C3_Witness ==
    /\ pc = "returned" /\ fetcher = "equipment" /\ Len(log) = 1
    /\ EquipmentSuccess(log[1].reply)
    /\ Len(log[1].reply.body.items) = 3
    /\ \E k \in 1..3 : log[1].reply.body.items[k].mapping
                       /\ log[1].reply.body.items[k].receiptIds.t = "list"
                       /\ log[1].reply.body.items[k].receiptIds.ids = <<>>
    /\ \E k \in 1..3 : log[1].reply.body.items[k].receiptIds.t = "null"
    /\ \E k \in 1..3 : HasReceiptId(log[1].reply.body.items[k])
    /\ Len(ret.items) = 1
    /\ ret.items[1].customerId = MammaChia

\* A text Python reads as a float: an optionally signed run of digits, or
\* nan, inf, infinity in any case, with whitespace around it.
FloatText(s) ==
    LET body == Strip(s)
        mag == IF body # <<>> /\ Head(body) \in {"+", "-"} THEN Tail(body) ELSE body
    IN  \/ mag # <<>> /\ \A k \in 1..Len(mag) : mag[k] \in Digits
        \/ Lower(mag) \in {<<"n", "a", "n">>, <<"i", "n", "f">>,
                           <<"i", "n", "f", "i", "n", "i", "t", "y">>}

\* The quantity under this key is missing, or is no number and no text that
\* reads as one.
MissingOrNonNumeric(order, key) ==
    \/ key \notin DOMAIN order.f
    \/ order.f[key].t \in {"null", "container"}
    \/ order.f[key].t = "str" /\ ~FloatText(order.f[key].s)

TimeOfDay(dt) == <<dt.hour, dt.minute, dt.second, dt.microsecond>>
Before(a, b) ==
    \/ a.day < b.day
    \/ /\ a.day = b.day
       /\ \/ a.hour < b.hour
          \/ a.hour = b.hour /\ a.minute < b.minute
          \/ a.hour = b.hour /\ a.minute = b.minute /\ a.second < b.second
          \/ /\ a.hour = b.hour /\ a.minute = b.minute /\ a.second = b.second
             /\ a.microsecond < b.microsecond

\* C5: get_tomorrow_date_range(n) returns start and end on the date of
\* now + n days, start at exactly 00:00:00, end at exactly 23:59:59, and
\* end after start.
C5_ExactDayWindow ==
    (pc = "returned" /\ fetcher = "date_range") =>
        /\ window.start.day = clock.day + arg.days_ahead
        /\ window.end.day = clock.day + arg.days_ahead
        /\ TimeOfDay(window.start) = <<0, 0, 0, 0>>
        /\ TimeOfDay(window.end) = <<23, 59, 59, 0>>
        /\ Before(window.start, window.end)

\* What holds of the window whatever the instant: the date, the whole
\* seconds of both ends, and their order.
C5_WholeSeconds ==
    (pc = "returned" /\ fetcher = "date_range") =>
        /\ window.start.day = clock.day + arg.days_ahead
        /\ window.end.day = clock.day + arg.days_ahead
        /\ Strftime(window.start) = <<clock.day + arg.days_ahead, 0, 0, 0>>
        /\ Strftime(window.end) = <<clock.day + arg.days_ahead, 23, 59, 59>>
        /\ window.start.microsecond = clock.microsecond
        /\ window.end.microsecond = clock.microsecond
        /\ Before(window.start, window.end)

\* The least index of a sheet whose lower-cased name contains the word.
IsFirstMatch(sheets, k, word) ==
    /\ k \in 1..Len(sheets)
    /\ Contains(Lower(sheets[k]), word)
    /\ \A h \in 1..(k - 1) : ~Contains(Lower(sheets[h]), word)

\* get_priority_report('all') got a workbook without one of the exact names.
FallbackCase ==
    /\ pc = "returned" /\ fetcher = "priority" /\ arg.sheet_name = Str(all)
    /\ ~log[1].reply.transport /\ log[1].reply.status = 200 /\ log[1].reply.excel
    /\ ~({RGOutbound, Inbound} \subseteq Range(log[1].reply.sheets))

\* C6: with selector 'all' and a workbook lacking 'RG Outbound' or
\* 'Inbound', the result maps the first sheet whose lower-cased name
\* contains 'outbound' and the first whose lower-cased name contains
\* 'inbound' to their tables, and is None exactly when one of the two words
\* matches no sheet.
C6_FallbackSheets ==
    FallbackCase =>
        LET sheets == log[1].reply.sheets
        IN  /\ \A a, b \in 1..Len(sheets) :
                 (IsFirstMatch(sheets, a, outbound) /\ IsFirstMatch(sheets, b, inbound))
                   => ret.kind = "sheets" /\ Range(ret.items) = {sheets[a], sheets[b]}
            /\ ret = None <=>
                 \/ \A k \in 1..Len(sheets) : ~Contains(Lower(sheets[k]), outbound)
                 \/ \A k \in 1..Len(sheets) : ~Contains(Lower(sheets[k]), inbound)

\* The workbook with sheets "RGOutbound" and "InboundDock" gives both tables.
C6_Witness ==
    /\ FallbackCase
    /\ log[1].reply.sheets = << <<"R", "G", "O", "u", "t", "b", "o", "u", "n", "d">>,
                                <<"I", "n", "b", "o", "u", "n", "d", "D", "o", "c", "k">> >>
    /\ ret = SheetsOf(log[1].reply.sheets)

AppointmentKeys == {"appointmentTimeFrom", "appointmentTimeTo"}
TargetKeys == {"targetCompletionDateFrom", "targetCompletionDateTo"}

\* C7: every payload of the order fetchers carries exactly one pair of
\* date-window fields, the appointment pair for customer ORG-685351 and
\* the target-completion pair for any other, and the pair holds the start
\* and the end of the one day after the call, the same for all customers.
C7_OneDateWindowPair ==
    fetcher \in OrderFetchers =>
        \A j \in 1..Len(sent) :
            LET p == sent[j]
                keys == DOMAIN p \cap (AppointmentKeys \cup TargetKeys)
                day == clock.day + 1
            IN  IF Strip(CUSTOMER_IDS[j]) = <<"ORG-685351">>
                  THEN /\ keys = AppointmentKeys
                       /\ p.appointmentTimeFrom = <<day, 0, 0, 0>>
                       /\ p.appointmentTimeTo = <<day, 23, 59, 59>>
                ELSE /\ keys = TargetKeys
                     /\ p.targetCompletionDateFrom = <<day, 0, 0, 0>>
                     /\ p.targetCompletionDateTo = <<day, 23, 59, 59>>

\* One call that posted a payload of each kind.
C7_Witness ==
    /\ pc = "returned" /\ fetcher = "picked" /\ Len(sent) = 3
    /\ "appointmentTimeFrom" \in DOMAIN sent[1]
    /\ "targetCompletionDateFrom" \in DOMAIN sent[2]
    /\ "appointmentTimeTo" \in DOMAIN sent[3]

\* The number a valid quantity stands for.
ValidNumber(order, key) ==
    /\ key \in DOMAIN order.f
    /\ \/ order.f[key].t = "num"
       \/ order.f[key].t = "str" /\ Range(Strip(order.f[key].s)) \subseteq Digits
                                /\ Strip(order.f[key].s) # <<>>
NumberOf(order, key) ==
    IF order.f[key].t = "num" THEN order.f[key].n ELSE DigitsVal(Strip(order.f[key].s))

\* C8: when exactly one of 'Pallet QTY' and 'Order QTY' of a raw order is
\* non-numeric and the other a valid number, the record has 0 for the bad
\* field, the parsed value for the valid one and, in get_outbound_orders,
\* the raw order's 'Picking Type'.
C8_DefaultPerField ==
    (pc = "returned" /\ fetcher \in OrderFetchers) =>
        \A j \in 1..Len(log) :
            OrdersSuccess(log[j].reply) =>
                \A k \in 1..Len(Segment(j)) :
                    LET order == log[j].reply.body.items[k]
                        rec == Segment(j)[k]
                    IN  /\ (MissingOrNonNumeric(order, "Pallet QTY") /\ ValidNumber(order, "Order QTY"))
                             => /\ rec.pallet_qty = Qty(0)
                                /\ rec.order_qty = Qty(NumberOf(order, "Order QTY"))
                                /\ fetcher = "outbound"
                                     => rec.PickingType = Get(order, "Picking Type", Str(<<>>))
                        /\ (MissingOrNonNumeric(order, "Order QTY") /\ ValidNumber(order, "Pallet QTY"))
                             => /\ rec.order_qty = Qty(0)
                                /\ rec.pallet_qty = Qty(NumberOf(order, "Pallet QTY"))
                                /\ fetcher = "outbound"
                                     => rec.PickingType = Get(order, "Picking Type", Str(<<>>))

\* C9: a request whose handling ended in the per-customer except handler
\* left no record in the returned list.
C9_FailedRequestIsEmpty ==
    (pc = "returned" /\ fetcher \in OrderFetchers) =>
        \A j \in 1..Len(log) : log[j].exc # "" => Segment(j) = <<>>

\* After any step, the requests posted so far are one per finished loop
\* iteration, to the customers of the list in list order, never more than
\* the list has entries, and all of them when the fetcher has returned.
\* (The configuration text, and so CUSTOMER_IDS, never changes.)
C10_Requests ==
    fetcher' \in PerCustomer =>
        /\ Len(sent') = i' /\ Len(log') = i'
        /\ i' <= Len(CUSTOMER_IDS)
        /\ \A j \in 1..Len(sent') : sent'[j].customerId = Strip(CUSTOMER_IDS[j])
        /\ pc' = "returned" => Len(sent') = Len(CUSTOMER_IDS)

\* A step of a per-customer fetcher in its loop: while entries are left it
\* posts one request, to the next entry, and moves on to the entry after it
\* whether the request failed or not; when none is left it returns.
C10_Step ==
    (pc = "loop" /\ fetcher \in PerCustomer) =>
        /\ i < Len(CUSTOMER_IDS) =>
             /\ sent' = Append(sent, sent'[Len(sent')])
             /\ sent'[Len(sent')].customerId = Strip(CUSTOMER_IDS[i + 1])
             /\ i' = i + 1
             /\ pc' = "loop"
        /\ i >= Len(CUSTOMER_IDS) =>
             /\ sent' = sent
             /\ pc' = "returned"

\* C10: each per-customer fetcher posts exactly one request per entry of
\* the customer list, in list order, one after the other; a failed request
\* is not repeated, and the fetcher returns after as many requests as the
\* list has entries.
C10_OneRequestPerEntry == [][C10_Step /\ C10_Requests]_vars

\* A returned call over a list naming one customer twice in a row, the
\* first of the two requests failed.
C10_Witness ==
    /\ pc = "returned" /\ fetcher = "equipment" /\ Len(sent) = 3
    /\ CUSTOMER_IDS[1] = CUSTOMER_IDS[2]
    /\ log[1].failed /\ ~log[2].failed
    /\ sent[1] = sent[2]

=============================================================================
